---- MODULE Spec2Model ----
(***************************************************************************)
(* A model of package extcompress: external filter programs wrapped as     *)
(* readable jobs (CompressionJob), the registry of filters and the lookup  *)
(* of a handler by content type.                                           *)
(*                                                                         *)
(* Spec       one CompressionJob used by concurrent callers                *)
(*            (Read / Close / Result), with the child process, its output  *)
(*            pipe and its standard input as the environment.              *)
(* SpecFair   Spec with the fairness the Go scheduler and the operating    *)
(*            system give: running goroutines and processes take steps.    *)
(* SpecFacade the registry and GetExternalHandlerFromMimeType on content   *)
(*            types drawn from a bounded set, and the round trip of        *)
(*            TestMimeHandlerMappings: CompressStream, a file, Decompress. *)
(* SpecSpawn  Compress, CompressStream, DecompressStream and Decompress     *)
(*            creating a job, or failing to, and the child of the job.     *)
(* SpecInPlace CompressFileInPlace and DecompressFileInPlace: cmd.Run().    *)
(* SpecMime   magicMimeWorker and the callers of                            *)
(*            GetFileTypeExternalHandler; SpecMimeFair adds fairness.       *)
(* SpecCheck  CheckHandlers over the filters and a search path.             *)
(* SpecResultFair  a job whose output may exceed what the pipe holds, under *)
(*            fair scheduling and an input that comes to its end.           *)
(* SpecCloseOrder  Spec with this.pipe.Close() and the entry of cmd.Wait()  *)
(*            in Close() as two steps.                                      *)
(* SpecRead   Read() with what it returns kept, beside the child and a      *)
(*            Close().                                                      *)
(* SpecRegistry  the registry as Go holds it (slices over backing arrays),  *)
(*            handlers resolved from it and their argument vectors.         *)
(* SpecChain  TestPipeChaining: the job of Decompress(file) is the input   *)
(*            reader of CompressStream; one goroutine copies the second    *)
(*            job's output to its end and asks both jobs for Result().     *)
(***************************************************************************)
EXTENDS Integers, Sequences, FiniteSets, TLC

\* ------------------------------------------------------------------ bounds
MaxCalls == 2        \* Close() and Result() calls made, each by a goroutine of its own
MaxData == 1         \* bytes the child has to produce / the input holds
PipeCap == 1         \* capacity of an OS pipe, in bytes
MaxStatus == 1       \* largest exit status a filter exits with
MaxTokens == 3       \* length of a content type, in tokens
MaxLen == 2          \* length of the byte sequence of a round trip
MaxByte == 1         \* largest byte value in it

Callers == 1..MaxCalls
JobIds == {1, 2}
ExitStatuses == 0..MaxStatus

\* ------------------------------------------------------------------- state
VARIABLES
    cmd,        \* cmd[j]: the exec.Cmd of job j: [finished, ProcessState]
    pipe,       \* pipe[j]: the stdout pipe of job j: [buf, rdClosed, wrClosed]
    result,     \* result[j]: CompressionJob.result
    termFlag,   \* termFlag[j]: CompressionJob.termFlag
    wg,         \* wg[j]: counter of CompressionJob.wg
    proc,       \* proc[j]: the child process as the OS sees it
    stdin,      \* stdin[j]: the child's standard input and the goroutine feeding it
    crashed,    \* "none", "fatal" (log.Fatalf: os.Exit) or "panic"
    pc,         \* pc[t]: where caller t stands
    call,       \* call[t]: the Close() or Result() call caller t is in
    waitErr,    \* waitErr[t]: the err that cmd.Wait() returned to t
    hist,       \* hist[j]: the calls made on job j and what they returned
    facade      \* a lookup in the registry and the round trip made with the
                \* handler: [fpc, mimeType, resolved, data, legs]

jobVars == <<cmd, pipe, result, termFlag, wg>>
envVars == <<proc, stdin>>
callerVars == <<pc, call, waitErr>>
vars == <<cmd, pipe, result, termFlag, wg, proc, stdin, crashed,
          pc, call, waitErr, hist, facade>>

\* ---------------------------------------------------------------- registry
\* A string is the sequence of its tokens: "/" is a token, and so is each
\* run of other characters. "text/plain" is <<"text", "/", "plain">>.
Slash == "/"
Str1(a) == <<a>>
Str2(a, b) == <<a, Slash, b>>

\* var mimeMap map[string]string
mimeMap ==
    { <<Str2("application", "x-bzip2"), "bzip2">>,
      <<Str1("bzip2"), "bzip2">>,
      <<Str2("application", "gzip"), "gzip">>,
      <<Str2("application", "x-gzip"), "gzip">>,
      <<Str1("gzip"), "gzip">>,
      <<Str2("application", "x-xz"), "xz">>,
      <<Str1("xz"), "xz">>,
      <<Str2("text", "plain"), "cat">>,
      <<Str1("text"), "cat">>,
      <<Str2("application", "x-empty"), "cat">>,
      <<Str2("inode", "x-empty"), "cat">> }

\* handlername, ok := m[key]
HasKey(m, key) == \E e \in m : e[1] = key
Lookup(m, key) == (CHOOSE e \in m : e[1] = key)[2]
MimeKeys == {e[1] : e \in mimeMap}

\* type Filter struct; the zero Filter stands where Go has a nil handler
MkFilter(c, cf, df, csf, dsf, cif, dif) ==
    [Command |-> c, CompressFlags |-> cf, DecompressFlags |-> df,
     CompressStreamFlags |-> csf, DecompressStreamFlags |-> dsf,
     CompressInPlaceFlags |-> cif, DecompressInPlaceFlags |-> dif,
     mimeType |-> <<>>]
NilFilter == MkFilter("", <<>>, <<>>, <<>>, <<>>, <<>>, <<>>)

\* a registry whose file decompression flags miss "-d"
filtersMap_NoDecompress ==
    [n \in {"bzip2", "gzip", "xz", "cat"} |->
        IF n = "cat"
          THEN MkFilter("cat", <<>>, <<>>, <<>>, <<>>, <<>>, <<>>)
          ELSE MkFilter(n, <<"-c">>, <<"-c">>, <<"-c">>, <<"-d", "-c">>, <<>>, <<"-d">>)]

\* var filtersMap map[string]Filter
filtersMap ==
    [n \in {"bzip2", "gzip", "xz", "cat"} |->
        IF n = "cat"
          THEN MkFilter("cat", <<>>, <<>>, <<>>, <<>>, <<>>, <<>>)
          ELSE MkFilter(n, <<"-c">>, <<"-d", "-c">>, <<"-c">>, <<"-d", "-c">>, <<>>, <<"-d">>)]

\* strings.Split(s, "/")[0]: the tokens before the first "/"
RECURSIVE SplitFirst(_)
SplitFirst(s) ==
    IF s = <<>> \/ Head(s) = Slash THEN <<>> ELSE <<Head(s)>> \o SplitFirst(Tail(s))

\* type UnknownFileType struct { MimeType string }; NilError is a nil error
UnknownFileType(m) == [kind |-> "UnknownFileType", MimeType |-> m]
NilError == [kind |-> "nil", MimeType |-> <<>>]

\* a lookup that tries the primary type before the whole string
FoundKey_PrimaryFirst(m) ==
    IF HasKey(mimeMap, SplitFirst(m)) THEN <<SplitFirst(m)>>
    ELSE IF HasKey(mimeMap, m) THEN <<m>>
    ELSE <<>>

\* the name the two lookups of GetExternalHandlerFromMimeType find: the
\* key they found it under, or no key
FoundKey(m) ==
    IF HasKey(mimeMap, m) THEN <<m>>
    ELSE IF HasKey(mimeMap, SplitFirst(m)) THEN <<SplitFirst(m)>>
    ELSE <<>>

\* a lookup that records the key that matched as the handler's type
GetExternalHandlerFromMimeType_Key(m) ==
    IF FoundKey(m) = <<>>
      THEN [handler |-> NilFilter, isNil |-> TRUE, err |-> UnknownFileType(m)]
      ELSE [handler |-> [filtersMap[Lookup(mimeMap, FoundKey(m)[1])]
                            EXCEPT !.mimeType = FoundKey(m)[1]],
            isNil |-> FALSE, err |-> NilError]

\* a lookup whose error names the primary type it tried last
GetExternalHandlerFromMimeType_First(m) ==
    IF FoundKey(m) = <<>>
      THEN [handler |-> NilFilter, isNil |-> TRUE, err |-> UnknownFileType(SplitFirst(m))]
      ELSE [handler |-> [filtersMap[Lookup(mimeMap, FoundKey(m)[1])]
                            EXCEPT !.mimeType = m],
            isNil |-> FALSE, err |-> NilError]

\* func GetExternalHandlerFromMimeType(mimeType string) (ExternalHandler, error)
GetExternalHandlerFromMimeType(m) ==
    IF FoundKey(m) = <<>>
      THEN [handler |-> NilFilter, isNil |-> TRUE, err |-> UnknownFileType(m)]
      ELSE [handler |-> [filtersMap[Lookup(mimeMap, FoundKey(m)[1])]
                            EXCEPT !.mimeType = m],
            isNil |-> FALSE, err |-> NilError]

\* func (c Filter) MimeType() string
MimeType(c) == c.mimeType

\* ----------------------------------------------------------- construction
\* exec.Cmd after Start(): not waited on, no ProcessState
StartedCmd == [finished |-> FALSE, ProcessState |-> "nil"]
NoCmd == [finished |-> FALSE, ProcessState |-> "none"]

\* the pipe of cmd.StdoutPipe(): empty, both ends open
NewPipe == [buf |-> 0, rdClosed |-> FALSE, wrClosed |-> FALSE]

\* a started child: st is "run" | "zombie" | "reaped"; mode tells what a
\* running child is doing; todo is the output it still has to write
StartedProc(n) ==
    [st |-> "run", mode |-> "computing", todo |-> n,
     bySignal |-> FALSE, status |-> 0]
NoProc ==
    [st |-> "none", mode |-> "computing", todo |-> 0,
     bySignal |-> FALSE, status |-> 0]

\* standard input: kind "none" (the file path is an argument) or "stream"
\* (cmd.Stdin = rd: a goroutine copies rd into a pipe to the child);
\* left is what rd still holds, buf what the pipe holds, eof the pipe's
\* write end closed, copier the goroutine: "none" | "running" | "done"
FileStdin == [kind |-> "none", left |-> 0, buf |-> 0, eof |-> TRUE, copier |-> "none"]
StreamStdin(n) ==
    [kind |-> "stream", left |-> n, buf |-> 0, eof |-> FALSE, copier |-> "running"]

\* newCompressionJob: job.wg.Add(1); result and termFlag are zero values
newCompressionJob_wg == 1

\* The call a caller is in: op ("Close" | "Result"), the job, the number of
\* the call among the calls on that job, and what held when it began:
\* forced (of Close(): the child was running; of Result(): such a Close()
\* had returned), first (no Result() before it), eof (the output had been
\* read to end-of-stream). Once it has returned: val, the value returned,
\* and what held at the return: reaped (the child was reaped), tf (the
\* job's termFlag), closes (the Close() calls begun on the job).
NoCall ==
    [op |-> "none", job |-> 1, no |-> 0,
     forced |-> FALSE, first |-> FALSE, eof |-> FALSE,
     val |-> 0, reaped |-> FALSE, tf |-> FALSE, closes |-> 0]

NoHist ==
    [closeCalls |-> 0,          \* Close() calls begun
     resultCalls |-> 0,         \* Result() calls begun
     finalizes |-> 0,           \* executions of getResult
     reapedBy |-> 0,            \* the number of the call whose cmd.Wait() reaped the child
     sawEOF |-> FALSE]          \* a Read() returned end-of-stream

IdleCallers ==
    /\ pc = [t \in Callers |-> "idle"]
    /\ call = [t \in Callers |-> NoCall]
    /\ waitErr = [t \in Callers |-> "nil"]

\* no content type is being resolved, no round trip made
NoFacade == [fpc |-> "none"]

\* One job, just returned by Compress/Decompress (a file job) or by
\* CompressStream/DecompressStream (a stream job); job 2 does not exist.
Init ==
    /\ \E n \in 0..MaxData, k \in {"file", "stream"} :
          /\ proc = [j \in JobIds |-> IF j = 1
                        THEN StartedProc(IF k = "file" THEN n ELSE 0) ELSE NoProc]
          /\ stdin = [j \in JobIds |-> IF j = 1 /\ k = "stream"
                        THEN StreamStdin(n) ELSE FileStdin]
    /\ cmd = [j \in JobIds |-> IF j = 1 THEN StartedCmd ELSE NoCmd]
    /\ pipe = [j \in JobIds |-> NewPipe]
    /\ result = [j \in JobIds |-> 0]
    /\ termFlag = [j \in JobIds |-> FALSE]
    /\ wg = [j \in JobIds |-> IF j = 1 THEN newCompressionJob_wg ELSE 0]
    /\ crashed = "none"
    /\ IdleCallers
    /\ hist = [j \in JobIds |-> NoHist]
    /\ facade = NoFacade

\* ------------------------------------------------ the child and its pipes
Alive(j) == proc[j].st = "run"

\* the child has died: the OS closes its ends of the pipes
Zombie(p, sig, s) ==
    [p EXCEPT !.st = "zombie", !.bySignal = sig, !.status = s]

\* The child writes one byte of output. To a full pipe it blocks; to a
\* pipe whose read end is closed it gets SIGPIPE and dies of it.
ChildWrite(j) ==
    /\ UNCHANGED facade
    /\ crashed = "none"
    /\ Alive(j)
    /\ proc[j].mode \in {"computing", "blockedWrite"}
    /\ proc[j].todo > 0
    /\ IF pipe[j].rdClosed
         THEN /\ proc' = [proc EXCEPT ![j] = Zombie(@, TRUE, 0)]
              /\ pipe' = [pipe EXCEPT ![j].wrClosed = TRUE]
         ELSE IF pipe[j].buf < PipeCap
         THEN /\ proc' = [proc EXCEPT ![j].todo = @ - 1, ![j].mode = "computing"]
              /\ pipe' = [pipe EXCEPT ![j].buf = @ + 1]
         ELSE /\ proc[j].mode = "computing"
              /\ proc' = [proc EXCEPT ![j].mode = "blockedWrite"]
              /\ pipe' = pipe
    /\ UNCHANGED <<cmd, result, termFlag, wg, stdin, crashed, callerVars, hist>>

\* The child reads its standard input: a byte becomes a byte of output to
\* write; with nothing there and the input still open the child blocks.
ChildRead(j) ==
    /\ UNCHANGED facade
    /\ crashed = "none"
    /\ Alive(j)
    /\ stdin[j].kind = "stream"
    /\ proc[j].mode \in {"computing", "blockedRead"}
    /\ proc[j].todo = 0
    /\ IF stdin[j].buf > 0
         THEN /\ stdin' = [stdin EXCEPT ![j].buf = @ - 1]
              /\ proc' = [proc EXCEPT ![j].todo = @ + 1, ![j].mode = "computing"]
         ELSE IF stdin[j].eof
         THEN /\ proc[j].mode = "blockedRead"
              /\ proc' = [proc EXCEPT ![j].mode = "computing"]
              /\ stdin' = stdin
         ELSE /\ proc[j].mode = "computing"
              /\ proc' = [proc EXCEPT ![j].mode = "blockedRead"]
              /\ stdin' = stdin
    /\ UNCHANGED <<jobVars, crashed, callerVars, hist>>

\* The child exits on its own: with status 0 once all input is read and
\* all output written, with a status above 0 at any point of its work.
ChildExit(j, s) ==
    /\ UNCHANGED facade
    /\ crashed = "none"
    /\ Alive(j)
    /\ proc[j].mode = "computing"
    /\ s = 0 => (proc[j].todo = 0 /\ stdin[j].buf = 0 /\ stdin[j].eof)
    /\ proc' = [proc EXCEPT ![j] = Zombie(@, FALSE, s)]
    /\ pipe' = [pipe EXCEPT ![j].wrClosed = TRUE]
    /\ UNCHANGED <<cmd, result, termFlag, wg, stdin, crashed, callerVars, hist>>

\* The goroutine of cmd.Stdin copies the caller's reader into the child's
\* standard input: one byte, or the end of the reader (it closes the pipe),
\* or a write to a dead child (it ends). The reader is the caller's: it may
\* stay silent for ever.
StdinCopy(j) ==
    /\ UNCHANGED facade
    /\ crashed = "none"
    /\ stdin[j].copier = "running"
    /\ IF ~Alive(j)
         THEN stdin' = [stdin EXCEPT ![j].copier = "done"]
         ELSE IF stdin[j].left = 0
         THEN stdin' = [stdin EXCEPT ![j].eof = TRUE, ![j].copier = "done"]
         ELSE /\ stdin[j].buf < PipeCap
              /\ stdin' = [stdin EXCEPT ![j].left = @ - 1, ![j].buf = @ + 1]
    /\ UNCHANGED <<jobVars, proc, crashed, callerVars, hist>>


\* --------------------------------------------------------- CompressionJob
Running(t) == crashed = "none" /\ pc[t] \notin {"idle", "returned"}

\* Caller t may begin a Close() or a Result() on job j. Every call is made
\* by a goroutine of its own (it may begin before or after the calls before
\* it have returned); the callers are numbered in the order they call in.
CanCall(t, j) ==
    /\ crashed = "none"
    /\ pc[t] = "idle"
    /\ \A u \in Callers : u < t => pc[u] # "idle"
    /\ cmd[j].ProcessState # "none"

\* the call that begins on job j
NewCall(o, j) ==
    [NoCall EXCEPT !.op = o, !.job = j,
                   !.no = hist[j].closeCalls + hist[j].resultCalls + 1]

\* the call of t returns v: the value is kept with the call, with what
\* holds at the return
Return(t, v) ==
    /\ call' = [call EXCEPT ![t] =
            [@ EXCEPT !.val = v,
                      !.reaped = proc[call[t].job].st = "reaped",
                      !.tf = termFlag[call[t].job],
                      !.closes = hist[call[t].job].closeCalls]]
    /\ pc' = [pc EXCEPT ![t] = "returned"]
    /\ waitErr' = [waitErr EXCEPT ![t] = "nil"]
    /\ hist' = hist

\* the calls of kind o that have returned on job j
Returns(j, o) ==
    {call[t] : t \in {u \in Callers :
                        pc[u] = "returned" /\ call[u].job = j /\ call[u].op = o}}

\* what pipe.Read(p) returns on the read end of the stdout pipe: an error
\* on a closed file, else the bytes there are (n of them), else, the write
\* end closed, end-of-stream; else it blocks (no value)
PipeRead(pp) ==
    IF pp.rdClosed THEN {[kind |-> "err", n |-> 0]}
    ELSE IF pp.buf > 0 THEN {[kind |-> "data", n |-> k] : k \in 1..pp.buf}
    ELSE IF pp.wrClosed THEN {[kind |-> "EOF", n |-> 0]}
    ELSE {}

\* func (rwc CompressionJob) Read(p []byte) (n int, err error), by a
\* goroutine that is in no other call
Read(j) ==
    /\ UNCHANGED facade
    /\ crashed = "none"
    /\ cmd[j].ProcessState # "none"
    /\ \E r \in PipeRead(pipe[j]) :
          /\ pipe' = [pipe EXCEPT ![j].buf = @ - r.n]
          /\ hist' = [hist EXCEPT ![j].sawEOF = @ \/ r.kind = "EOF"]
    /\ UNCHANGED <<cmd, result, termFlag, wg, proc, stdin, crashed, pc, call, waitErr>>

\* cmd.Wait() is entered by another goroutine that has not left it
InWait(t, j) ==
    \E u \in Callers \ {t} : call[u].job = j /\ pc[u] \in {"wait_proc", "wait_copy"}

\* cmd.Wait() on job j, its entry by t. A Wait after a Wait is an error. Two
\* goroutines in Wait at once race on the flag: the second may read it
\* either way.
WaitEnter(t, j) ==
    \E seen \in IF cmd[j].finished /\ cmd[j].ProcessState = "nil" /\ InWait(t, j)
                  THEN {TRUE, FALSE} ELSE {cmd[j].finished} :
       IF seen
         THEN /\ waitErr' = [waitErr EXCEPT ![t] = "other"]
              /\ pc' = [pc EXCEPT ![t] = "record"]
              /\ cmd' = cmd
         ELSE /\ cmd' = [cmd EXCEPT ![j].finished = TRUE]
              /\ pc' = [pc EXCEPT ![t] = "wait_proc"]
              /\ waitErr' = waitErr

\* cmd.Process.Signal(syscall.SIGTERM): a running child dies of the signal,
\* a child that is gone gives an error (which Close only logs)
Signal(p) ==
    IF p.st = "run" THEN Zombie(p, TRUE, 0) ELSE p

\* the condition under which Close() signals the child and sets termFlag
CloseSignals(c) == c.ProcessState # "nil"

\* Close(), up to the signal: lines 135-152
CloseBegin(t, j) ==
    /\ UNCHANGED facade
    /\ CanCall(t, j)
    /\ IF CloseSignals(cmd[j])
         THEN /\ proc' = [proc EXCEPT ![j] = Signal(@)]
              /\ pipe' = [pipe EXCEPT ![j].wrClosed = @ \/ proc[j].st = "run"]
              /\ termFlag' = [termFlag EXCEPT ![j] = TRUE]
         ELSE UNCHANGED <<proc, pipe, termFlag>>
    /\ pc' = [pc EXCEPT ![t] = "close_pipe"]
    /\ call' = [call EXCEPT ![t] =
            [NewCall("Close", j) EXCEPT !.forced = proc[j].st = "run"]]
    /\ hist' = [hist EXCEPT ![j].closeCalls = @ + 1]
    /\ UNCHANGED <<cmd, result, wg, stdin, crashed, waitErr>>

\* this.pipe.Close(), then into getResult and its cmd.Wait(): lines 153-158
ClosePipe(t) ==
    /\ UNCHANGED facade
    /\ Running(t)
    /\ pc[t] = "close_pipe"
    /\ pipe' = [pipe EXCEPT ![call[t].job].rdClosed = TRUE]
    /\ WaitEnter(t, call[t].job)
    /\ hist' = [hist EXCEPT ![call[t].job].finalizes = @ + 1]
    /\ UNCHANGED <<result, termFlag, wg, proc, stdin, crashed, call>>

\* the condition under which Result() runs getResult itself
ResultWaits(c) == c.ProcessState = "nil"

\* a Result() that releases the latch without waiting on the process
ResultEntry_NoWait(c) == IF ResultWaits(c) THEN "record" ELSE "wg_wait"

\* a Result() that never runs getResult
ResultEntry_Skip(c) == "wg_wait"

\* where Result() goes from its test: into getResult (and its cmd.Wait()),
\* or straight to this.wg.Wait()
ResultEntry(c) == IF ResultWaits(c) THEN "wait_enter" ELSE "wg_wait"

\* a forced Close() has returned on job j
ForcedClosed(j) == \E r \in Returns(j, "Close") : r.forced

\* Result(), its test of ProcessState, and into getResult and its
\* cmd.Wait(): lines 184-186, 158
ResultBegin(t, j) ==
    /\ UNCHANGED facade
    /\ CanCall(t, j)
    /\ IF ResultEntry(cmd[j]) = "wait_enter"
         THEN WaitEnter(t, j)
         ELSE /\ pc' = [pc EXCEPT ![t] = ResultEntry(cmd[j])]
              /\ UNCHANGED <<cmd, waitErr>>
    /\ call' = [call EXCEPT ![t] =
            [NewCall("Result", j) EXCEPT !.forced = ForcedClosed(j),
                                         !.first = hist[j].resultCalls = 0,
                                         !.eof = hist[j].sawEOF]]
    /\ hist' = [hist EXCEPT ![j].resultCalls = @ + 1,
                            ![j].finalizes = @ + (IF ResultWaits(cmd[j]) THEN 1 ELSE 0)]
    /\ UNCHANGED <<pipe, result, termFlag, wg, proc, stdin, crashed>>

\* cmd.Wait(): c.Process.Wait() blocks until the child has exited, reaps it
\* and records the ProcessState. A goroutine that raced into Wait finds the
\* child reaped: an error, and the ProcessState it stores is nil or lost.
WaitProcess(t) ==
    /\ UNCHANGED facade
    /\ Running(t)
    /\ pc[t] = "wait_proc"
    /\ LET j == call[t].job IN
       /\ proc[j].st \in {"zombie", "reaped"}
       /\ IF proc[j].st = "zombie"
            THEN /\ proc' = [proc EXCEPT ![j].st = "reaped"]
                 /\ cmd' = [cmd EXCEPT ![j].ProcessState = "set"]
                 /\ waitErr' = [waitErr EXCEPT ![t] =
                        IF proc[j].bySignal \/ proc[j].status # 0 THEN "exit" ELSE "nil"]
                 /\ hist' = [hist EXCEPT ![j].reapedBy = call[t].no]
            ELSE /\ \E ps \in {cmd[j].ProcessState, "nil"} :
                        cmd' = [cmd EXCEPT ![j].ProcessState = ps]
                 /\ waitErr' = [waitErr EXCEPT ![t] = "other"]
                 /\ UNCHANGED <<proc, hist>>
    /\ pc' = [pc EXCEPT ![t] = "wait_copy"]
    /\ UNCHANGED <<pipe, result, termFlag, wg, stdin, crashed, call>>

\* cmd.Wait(), its end: it waits for the goroutine that copies the standard
\* input, closes the read end of the stdout pipe and returns
WaitReturn(t) ==
    /\ UNCHANGED facade
    /\ Running(t)
    /\ pc[t] = "wait_copy"
    /\ stdin[call[t].job].copier # "running"
    /\ pipe' = [pipe EXCEPT ![call[t].job].rdClosed = TRUE]
    /\ pc' = [pc EXCEPT ![t] = "record"]
    /\ UNCHANGED <<cmd, result, termFlag, wg, proc, stdin, crashed,
                   call, waitErr, hist>>

\* syscall.WaitStatus.ExitStatus(): -1 for a child that a signal killed
ExitStatus(p) == IF p.bySignal THEN 0 - 1 ELSE p.status

\* a getResult that drops the exit status
RecordResult_Drop(res, tf, err, p) == res

\* getResult, lines 158-175: the result it leaves, given the err of Wait
RecordResult(res, tf, err, p) ==
    IF err # "nil" /\ ~tf /\ err = "exit" THEN ExitStatus(p) ELSE res

\* a getResult that goes on after any err of Wait
IsFatal_Never(tf, err) == FALSE

\* getResult, line 172: log.Fatalf on an err that is no *exec.ExitError
IsFatal(tf, err) == err # "nil" /\ ~tf /\ err # "exit"

\* getResult, line 178: return nil; as a number, 0 is nil and 1 an error
getResultReturn(err) == 0

\* getResult, lines 158-175: the result is recorded, or log.Fatalf ends the
\* program
getResultRecord(t) ==
    /\ UNCHANGED facade
    /\ Running(t)
    /\ pc[t] = "record"
    /\ LET j == call[t].job IN
       /\ result' = [result EXCEPT ![j] = RecordResult(@, termFlag[j], waitErr[t], proc[j])]
       /\ crashed' = IF IsFatal(termFlag[j], waitErr[t]) THEN "fatal" ELSE crashed
    /\ pc' = [pc EXCEPT ![t] = "wg_done"]
    /\ UNCHANGED <<cmd, pipe, termFlag, wg, proc, stdin, call, waitErr, hist>>

\* getResult, lines 177-178: this.wg.Done(), which panics on a negative
\* counter; then return nil, to Close() (which returns it) or to Result()
getResultDone(t) ==
    /\ UNCHANGED facade
    /\ Running(t)
    /\ pc[t] = "wg_done"
    /\ LET j == call[t].job IN
       /\ wg' = [wg EXCEPT ![j] = @ - 1]
       /\ crashed' = IF wg[j] - 1 < 0 THEN "panic" ELSE crashed
    /\ IF call[t].op = "Close"
         THEN Return(t, getResultReturn(waitErr[t]))
         ELSE /\ pc' = [pc EXCEPT ![t] = "wg_wait"]
              /\ UNCHANGED <<call, waitErr, hist>>
    /\ UNCHANGED <<cmd, pipe, result, termFlag, proc, stdin>>

\* Result(), lines 188-189: this.wg.Wait(); return this.result
ResultReturn(t) ==
    /\ UNCHANGED facade
    /\ Running(t)
    /\ pc[t] = "wg_wait"
    /\ wg[call[t].job] = 0
    /\ Return(t, result[call[t].job])
    /\ UNCHANGED <<jobVars, proc, stdin, crashed>>

\* ---------------------------------------------------------- specification
ChildStep == ChildWrite(1) \/ ChildRead(1) \/ (\E s \in ExitStatuses : ChildExit(1, s))

CallerStep(t) ==
    \/ ClosePipe(t) \/ WaitProcess(t) \/ WaitReturn(t)
    \/ getResultRecord(t) \/ getResultDone(t) \/ ResultReturn(t)

Next ==
    \/ ChildWrite(1)
    \/ ChildRead(1)
    \/ \E s \in ExitStatuses : ChildExit(1, s)
    \/ StdinCopy(1)
    \/ Read(1)
    \/ \E t \in Callers : CloseBegin(t, 1)
    \/ \E t \in Callers : ResultBegin(t, 1)
    \/ \E t \in Callers : ClosePipe(t)
    \/ \E t \in Callers : WaitProcess(t)
    \/ \E t \in Callers : WaitReturn(t)
    \/ \E t \in Callers : getResultRecord(t)
    \/ \E t \in Callers : getResultDone(t)
    \/ \E t \in Callers : ResultReturn(t)

Spec == Init /\ [][Next]_vars

\* The child, the goroutines inside a call and the kernel keep running; the
\* callers need not call, and the reader behind a stream job need not give.
SpecFair ==
    /\ Spec
    /\ WF_vars(ChildStep)
    /\ \A t \in Callers : WF_vars(CallerStep(t))


\* this.pipe.Close(), line 153, on its own
ClosePipeClose(t) ==
    /\ UNCHANGED facade
    /\ Running(t)
    /\ pc[t] = "close_pipe"
    /\ pipe' = [pipe EXCEPT ![call[t].job].rdClosed = TRUE]
    /\ pc' = [pc EXCEPT ![t] = "close_wait"]
    /\ UNCHANGED <<cmd, result, termFlag, wg, proc, stdin, crashed, call, waitErr, hist>>

\* return this.getResult(), line 154, up to the entry of cmd.Wait(), line 158
CloseGetResult(t) ==
    /\ UNCHANGED facade
    /\ Running(t)
    /\ pc[t] = "close_wait"
    /\ WaitEnter(t, call[t].job)
    /\ hist' = [hist EXCEPT ![call[t].job].finalizes = @ + 1]
    /\ UNCHANGED <<pipe, result, termFlag, wg, proc, stdin, crashed, call>>

NextCloseOrder ==
    \/ ChildWrite(1)
    \/ ChildRead(1)
    \/ \E s \in ExitStatuses : ChildExit(1, s)
    \/ StdinCopy(1)
    \/ Read(1)
    \/ \E t \in Callers : CloseBegin(t, 1)
    \/ \E t \in Callers : ResultBegin(t, 1)
    \/ \E t \in Callers : ClosePipeClose(t)
    \/ \E t \in Callers : CloseGetResult(t)
    \/ \E t \in Callers : WaitProcess(t)
    \/ \E t \in Callers : WaitReturn(t)
    \/ \E t \in Callers : getResultRecord(t)
    \/ \E t \in Callers : getResultDone(t)
    \/ \E t \in Callers : ResultReturn(t)

SpecCloseOrder == Init /\ [][NextCloseOrder]_vars

\* a Read() that turns an error of the pipe into an end-of-stream
ReadReturn_HideError(r) == IF r.kind = "err" THEN [kind |-> "EOF", n |-> 0] ELSE r

\* return rwc.pipe.Read(p): the values of the pipe's Read are the values of
\* Read()
ReadReturn(r) == r

NoRead == [kind |-> "none", n |-> 0]

\* a job on which no Read() has been made yet
InitRead ==
    /\ \E n \in 0..MaxData, k \in {"file", "stream"} :
          /\ proc = [j \in JobIds |-> IF j = 1
                        THEN StartedProc(IF k = "file" THEN n ELSE 0) ELSE NoProc]
          /\ stdin = [j \in JobIds |-> IF j = 1 /\ k = "stream"
                        THEN StreamStdin(n) ELSE FileStdin]
    /\ cmd = [j \in JobIds |-> IF j = 1 THEN StartedCmd ELSE NoCmd]
    /\ pipe = [j \in JobIds |-> NewPipe]
    /\ result = [j \in JobIds |-> 0]
    /\ termFlag = [j \in JobIds |-> FALSE]
    /\ wg = [j \in JobIds |-> IF j = 1 THEN newCompressionJob_wg ELSE 0]
    /\ crashed = "none"
    /\ IdleCallers
    /\ hist = [j \in JobIds |-> NoHist]
    /\ facade = [fpc |-> "read", reads |-> 0, pipeRet |-> NoRead, ret |-> NoRead]

\* func (rwc CompressionJob) Read(p []byte) (n int, err error): what the
\* pipe's Read returned and what Read() returned are kept, and the number of
\* Read() calls (modulo 2)
ReadCall(j) ==
    /\ facade.fpc = "read"
    /\ crashed = "none"
    /\ cmd[j].ProcessState # "none"
    /\ \E r \in PipeRead(pipe[j]) :
          /\ pipe' = [pipe EXCEPT ![j].buf = @ - r.n]
          /\ hist' = [hist EXCEPT ![j].sawEOF = @ \/ r.kind = "EOF"]
          /\ facade' = [facade EXCEPT !.reads = (@ + 1) % 2,
                                      !.pipeRet = r,
                                      !.ret = ReadReturn(r)]
    /\ UNCHANGED <<cmd, result, termFlag, wg, proc, stdin, crashed, pc, call, waitErr>>

NextRead ==
    \/ ChildWrite(1)
    \/ ChildRead(1)
    \/ \E s \in ExitStatuses : ChildExit(1, s)
    \/ StdinCopy(1)
    \/ ReadCall(1)
    \/ CloseBegin(1, 1)
    \/ ClosePipe(1)
    \/ WaitProcess(1)
    \/ WaitReturn(1)
    \/ getResultRecord(1)
    \/ getResultDone(1)

SpecRead == InitRead /\ [][NextRead]_vars

\* a job as Compress, Decompress, CompressStream or DecompressStream return
\* it, with more to write than the pipe holds, or less
InitUndrained ==
    /\ \E n \in 0..(MaxData + PipeCap), k \in {"file", "stream"} :
          /\ proc = [j \in JobIds |-> IF j = 1
                        THEN StartedProc(IF k = "file" THEN n ELSE 0) ELSE NoProc]
          /\ stdin = [j \in JobIds |-> IF j = 1 /\ k = "stream"
                        THEN StreamStdin(n) ELSE FileStdin]
    /\ cmd = [j \in JobIds |-> IF j = 1 THEN StartedCmd ELSE NoCmd]
    /\ pipe = [j \in JobIds |-> NewPipe]
    /\ result = [j \in JobIds |-> 0]
    /\ termFlag = [j \in JobIds |-> FALSE]
    /\ wg = [j \in JobIds |-> IF j = 1 THEN newCompressionJob_wg ELSE 0]
    /\ crashed = "none"
    /\ IdleCallers
    /\ hist = [j \in JobIds |-> NoHist]
    /\ facade = NoFacade

\* the scheduler is fair to the child and to every goroutine in a call, and
\* the reader behind cmd.Stdin delivers its bytes and its end; nobody is
\* obliged to call Read()
SpecResultFair ==
    /\ InitUndrained /\ [][Next]_vars
    /\ WF_vars(ChildStep)
    /\ WF_vars(StdinCopy(1))
    /\ \A t \in Callers : WF_vars(CallerStep(t))

\* ----------------------------------------------------- TestPipeChaining
\* start_r, err := h.Decompress(file); mr, err := mh.CompressStream(start_r):
\* job 1 runs on a file of n bytes (up to more than a pipe holds), job 2
\* has job 1 as its cmd.Stdin.
\* stdin[2].left is what the copying goroutine has read from job 1 and
\* not yet written to the child of job 2.
InitChain ==
    /\ \E n \in 0..(MaxData + PipeCap) :
          proc = [j \in JobIds |-> IF j = 1 THEN StartedProc(n) ELSE StartedProc(0)]
    /\ stdin = [j \in JobIds |-> IF j = 1 THEN FileStdin ELSE StreamStdin(0)]
    /\ cmd = [j \in JobIds |-> StartedCmd]
    /\ pipe = [j \in JobIds |-> NewPipe]
    /\ result = [j \in JobIds |-> 0]
    /\ termFlag = [j \in JobIds |-> FALSE]
    /\ wg = [j \in JobIds |-> newCompressionJob_wg]
    /\ crashed = "none"
    /\ IdleCallers
    /\ hist = [j \in JobIds |-> NoHist]
    /\ facade = NoFacade

\* the goroutine of cmd.Stdin of job 2 calls start_r.Read: io.Copy(pw, rd)
\* ends at end-of-stream (or an error) and closes the child's input
ChainCopyRead ==
    /\ UNCHANGED facade
    /\ crashed = "none"
    /\ stdin[2].copier = "running"
    /\ stdin[2].left = 0
    /\ \E r \in PipeRead(pipe[1]) :
          /\ pipe' = [pipe EXCEPT ![1].buf = @ - r.n]
          /\ stdin' = [stdin EXCEPT ![2] =
                IF r.kind = "data" THEN [@ EXCEPT !.left = r.n]
                ELSE [@ EXCEPT !.eof = TRUE, !.copier = "done"]]
          /\ hist' = [hist EXCEPT ![1].sawEOF = @ \/ r.kind = "EOF"]
    /\ UNCHANGED <<cmd, result, termFlag, wg, proc, crashed, callerVars>>

\* the same goroutine writes what it has read to the child of job 2; a
\* write to a dead child fails and ends the copy
ChainCopyWrite ==
    /\ UNCHANGED facade
    /\ crashed = "none"
    /\ stdin[2].copier = "running"
    /\ stdin[2].left > 0
    /\ IF ~Alive(2)
         THEN stdin' = [stdin EXCEPT ![2].copier = "done"]
         ELSE /\ stdin[2].buf < PipeCap
              /\ stdin' = [stdin EXCEPT ![2].left = @ - 1, ![2].buf = @ + 1]
    /\ UNCHANGED <<jobVars, proc, crashed, callerVars, hist>>

\* _, err = io.Copy(fh, mr): Read on job 2 until end-of-stream
ChainIoCopy == ~hist[2].sawEOF /\ Read(2)

\* start_r.Result(), once io.Copy has returned
ChainResultFirst ==
    /\ hist[2].sawEOF
    /\ hist[1].resultCalls = 0
    /\ ResultBegin(1, 1)

\* mr.Result(), once start_r.Result() has returned
ChainResultSecond ==
    /\ hist[1].resultCalls = 1
    /\ Returns(1, "Result") # {}
    /\ hist[2].resultCalls = 0
    /\ ResultBegin(2, 2)

\* the filters of the test (cat, bzip2) exit with status 0
NextChain ==
    \/ \E j \in JobIds : ChildWrite(j)
    \/ ChildRead(2)
    \/ \E j \in JobIds : ChildExit(j, 0)
    \/ ChainCopyRead
    \/ ChainCopyWrite
    \/ ChainIoCopy
    \/ ChainResultFirst
    \/ ChainResultSecond
    \/ \E t \in Callers : WaitProcess(t)
    \/ \E t \in Callers : WaitReturn(t)
    \/ \E t \in Callers : getResultRecord(t)
    \/ \E t \in Callers : getResultDone(t)
    \/ \E t \in Callers : ResultReturn(t)

\* the test program, the copying goroutine and both children keep running
SpecChain == InitChain /\ [][NextChain]_vars /\ WF_vars(NextChain)

\* ------------------------------------------------- TestMimeHandlerMappings
\* The content types asked for: every string of at most MaxTokens tokens
\* over the words of the registry, a word that is in no key, and "/".
Words ==
    {"application", "x-bzip2", "bzip2", "gzip", "x-gzip", "x-xz", "xz",
     "text", "plain", "x-empty", "inode", "x-totally-unknown"}
MimeInputs == UNION {[1..n -> Words \cup {Slash}] : n \in 0..MaxTokens}
ByteSeqs == UNION {[1..n -> 0..MaxByte] : n \in 0..MaxLen}

\* The external programs. bzip2, gzip and xz compress unless "-d" is among
\* their arguments; what they write begins with the first byte of their
\* format, and they decompress nothing that does not begin with it. cat
\* copies. Each reads the file named on its command line, or else its
\* standard input, and with "-c" (cat: always) writes to standard output.
Magic(c) == CASE c = "bzip2" -> 66 [] c = "gzip" -> 31 [] c = "xz" -> 253
Encode(c, b) == <<Magic(c)>> \o [i \in 1..Len(b) |-> (b[i] + 1) % 256]
Decodable(c, b) == Len(b) > 0 /\ b[1] = Magic(c)
Decode(c, b) == [i \in 1..(Len(b) - 1) |-> (b[i + 1] + 255) % 256]
HasArg(args, a) == \E i \in 1..Len(args) : args[i] = a
FilePath == "filePath"

\* exec.Command(name, args...) run to its end on the standard input inp and
\* the file's content file: what it wrote to standard output and its status
RunFilter(name, args, inp, file) ==
    LET in == IF HasArg(args, FilePath) THEN file ELSE inp IN
    IF name = "cat" THEN [out |-> in, status |-> 0]
    ELSE IF ~HasArg(args, "-d") THEN [out |-> Encode(name, in), status |-> 0]
    ELSE IF Decodable(name, in) THEN [out |-> Decode(name, in), status |-> 0]
    ELSE [out |-> <<>>, status |-> 1]

\* Result() of a job read to end-of-stream whose child exited with status:
\* cmd.Wait() gives an *exec.ExitError for a status that is not 0
JobResult(status) ==
    RecordResult(0, FALSE, IF status # 0 THEN "exit" ELSE "nil",
                 [StartedProc(0) EXCEPT !.status = status])

\* the content type m is asked for: mimeType is the argument, resolved what
\* GetExternalHandlerFromMimeType returned ([handler, isNil, err]), key the
\* registry key under which it found the filter's name (<<k>>, or <<>>), data the
\* bytes of the round trip, legs the Result() of its two jobs
Asked(m) ==
    [fpc |-> "resolve", mimeType |-> m, key |-> <<>>,
     resolved |-> [handler |-> NilFilter, isNil |-> TRUE, err |-> NilError],
     data |-> [src |-> <<>>, file |-> <<>>, out |-> <<>>],
     legs |-> [compress |-> 0, decompress |-> 0]]

\* a content type is asked for; no job exists yet
InitFacade ==
    /\ \E m \in MimeInputs : facade = Asked(m)
    /\ proc = [j \in JobIds |-> NoProc]
    /\ stdin = [j \in JobIds |-> FileStdin]
    /\ cmd = [j \in JobIds |-> NoCmd]
    /\ pipe = [j \in JobIds |-> NewPipe]
    /\ result = [j \in JobIds |-> 0]
    /\ termFlag = [j \in JobIds |-> FALSE]
    /\ wg = [j \in JobIds |-> 0]
    /\ crashed = "none"
    /\ IdleCallers
    /\ hist = [j \in JobIds |-> NoHist]

\* h, err := GetExternalHandlerFromMimeType(k)
Resolve ==
    /\ facade.fpc = "resolve"
    /\ LET r == GetExternalHandlerFromMimeType(facade.mimeType) IN
         facade' = [facade EXCEPT !.resolved = r,
                                  !.key = FoundKey(facade.mimeType),
                                  !.fpc = IF r.isNil THEN "done" ELSE "resolved"]
    /\ UNCHANGED <<jobVars, envVars, crashed, callerVars, hist>>

\* r, err := h.CompressStream(b); io.Copy(f, r); r.Result()
CompressStream ==
    /\ facade.fpc = "resolved"
    /\ \E b \in ByteSeqs :
         LET c == facade.resolved.handler
             r == RunFilter(c.Command, c.CompressStreamFlags, b, <<>>) IN
         facade' = [facade EXCEPT !.data = [src |-> b, file |-> r.out, out |-> <<>>],
                                  !.legs.compress = JobResult(r.status),
                                  !.fpc = "stored"]
    /\ UNCHANGED <<jobVars, envVars, crashed, callerVars, hist>>

\* dr, err := h.Decompress(filename); ioutil.ReadAll(dr); dr.Result()
Decompress ==
    /\ facade.fpc = "stored"
    /\ LET c == facade.resolved.handler
           r == RunFilter(c.Command, c.DecompressFlags \o <<FilePath>>, <<>>,
                          facade.data.file) IN
         facade' = [facade EXCEPT !.data.out = r.out,
                                  !.legs.decompress = JobResult(r.status),
                                  !.fpc = "done"]
    /\ UNCHANGED <<jobVars, envVars, crashed, callerVars, hist>>

NextFacade ==
    \/ Resolve
    \/ CompressStream
    \/ Decompress

SpecFacade == InitFacade /\ [][NextFacade]_vars

\* ------------------------------------------------------- creating a job
\* the four methods of Filter that return a job; the stream methods set
\* cmd.Stdin = rd, the others pass the file path as an argument
StartOps == {"Compress", "CompressStream", "DecompressStream", "Decompress"}
StreamOps == {"CompressStream", "DecompressStream"}

\* what cmd.StdoutPipe() and cmd.Start() come to: both succeed, or the pipe
\* cannot be created, or the process cannot be started
StartOutcomes == {"ok", "pipe", "start"}

\* one of the methods is called; no job exists yet
InitSpawn ==
    /\ \E o \in StartOps : facade = [fpc |-> "spawn", op |-> o, job |-> 0, err |-> "nil"]
    /\ proc = [j \in JobIds |-> NoProc]
    /\ stdin = [j \in JobIds |-> FileStdin]
    /\ cmd = [j \in JobIds |-> NoCmd]
    /\ pipe = [j \in JobIds |-> NewPipe]
    /\ result = [j \in JobIds |-> 0]
    /\ termFlag = [j \in JobIds |-> FALSE]
    /\ wg = [j \in JobIds |-> 0]
    /\ crashed = "none"
    /\ IdleCallers
    /\ hist = [j \in JobIds |-> NoHist]

\* a method that returns the job whatever cmd.Start() said
StartReturn_KeepJob(o) ==
    IF o = "pipe" THEN [job |-> 0, err |-> o]
    ELSE [job |-> 1, err |-> IF o = "ok" THEN "nil" ELSE o]

\* what the method returns: (nil, err) after a failure, else
\* (newCompressionJob(cmd, rdr), err) with err nil; job 0 is the nil job
StartReturn(o) ==
    IF o = "ok" THEN [job |-> 1, err |-> "nil"] ELSE [job |-> 0, err |-> o]

\* Compress / CompressStream / DecompressStream / Decompress: exec.Command,
\* cmd.StdoutPipe(), cmd.Start(), newCompressionJob; the child has n bytes
\* to produce (a file) or to read (a stream)
StartJob(op) ==
    /\ facade.fpc = "spawn"
    /\ facade.op = op
    /\ \E o \in StartOutcomes, n \in 0..MaxData :
         LET r == StartReturn(o) IN
         /\ facade' = [facade EXCEPT !.fpc = "spawned", !.job = r.job, !.err = r.err]
         /\ proc' = [proc EXCEPT ![1] =
                IF o # "ok" THEN NoProc
                ELSE StartedProc(IF op \in StreamOps THEN 0 ELSE n)]
         /\ stdin' = [stdin EXCEPT ![1] =
                IF o = "ok" /\ op \in StreamOps THEN StreamStdin(n) ELSE FileStdin]
         /\ cmd' = [cmd EXCEPT ![1] = IF o = "ok" THEN StartedCmd ELSE NoCmd]
         /\ wg' = [wg EXCEPT ![1] = IF r.job # 0 THEN newCompressionJob_wg ELSE 0]
    /\ UNCHANGED <<pipe, result, termFlag, crashed, callerVars, hist>>

\* the job is created; its child runs and its output is read
NextSpawn ==
    \/ \E op \in StartOps : StartJob(op)
    \/ ChildWrite(1)
    \/ ChildRead(1)
    \/ \E s \in ExitStatuses : ChildExit(1, s)
    \/ StdinCopy(1)
    \/ Read(1)

SpecSpawn == InitSpawn /\ [][NextSpawn]_vars

\* ------------------------------------------------------ in-place methods
InPlaceOps == {"CompressFileInPlace", "DecompressFileInPlace"}

\* the flags the method passes before the file path
InPlaceFlags(c, op) ==
    IF op = "CompressFileInPlace" THEN c.CompressInPlaceFlags ELSE c.DecompressInPlaceFlags

\* a handler of the registry is asked to work on a file in place; no job
\* exists, and none is made
InitInPlace ==
    /\ \E k \in MimeKeys, o \in InPlaceOps :
          LET h == GetExternalHandlerFromMimeType(k).handler
          IN  facade = [fpc |-> "inplace", op |-> o, handler |-> h,
                        args |-> Append(InPlaceFlags(h, o), FilePath),
                        started |-> FALSE, job |-> 0, err |-> "nil"]
    /\ proc = [j \in JobIds |-> NoProc]
    /\ stdin = [j \in JobIds |-> FileStdin]
    /\ cmd = [j \in JobIds |-> NoCmd]
    /\ pipe = [j \in JobIds |-> NewPipe]
    /\ result = [j \in JobIds |-> 0]
    /\ termFlag = [j \in JobIds |-> FALSE]
    /\ wg = [j \in JobIds |-> 0]
    /\ crashed = "none"
    /\ IdleCallers
    /\ hist = [j \in JobIds |-> NoHist]

\* a Run() that reports every exit as a success
RunError_Swallow(p) == "nil"

\* the err of cmd.Run() for a process that was started: cmd.Wait() gives an
\* *exec.ExitError unless the process exited with status 0
RunError(p) == IF p.bySignal \/ p.status # 0 THEN "exit" ELSE "nil"

\* cmd.Run(), its cmd.Start(): the process runs, or cannot be started, and
\* then Run() returns the error at once and the method returns it
InPlaceStart ==
    /\ facade.fpc = "inplace"
    /\ \E o \in {"ok", "start"} :
         IF o = "ok"
           THEN /\ proc' = [proc EXCEPT ![1] = StartedProc(0)]
                /\ facade' = [facade EXCEPT !.fpc = "running", !.started = TRUE]
           ELSE /\ proc' = proc
                /\ facade' = [facade EXCEPT !.fpc = "returned", !.err = o]
    /\ UNCHANGED <<jobVars, stdin, crashed, callerVars, hist>>

\* the program ends: it exits with a status of its own (cat, or a filter
\* that compresses, may exit 0; so may one that decompresses), or a signal
\* from outside kills it
InPlaceExit ==
    /\ facade.fpc = "running"
    /\ Alive(1)
    /\ \E s \in ExitStatuses, sig \in BOOLEAN :
         /\ sig => s = 0
         /\ proc' = [proc EXCEPT ![1] = Zombie(@, sig, s)]
    /\ UNCHANGED <<jobVars, stdin, crashed, callerVars, hist, facade>>

\* cmd.Run(), its cmd.Wait(): blocks until the process has ended, reaps it
InPlaceWait ==
    /\ facade.fpc = "running"
    /\ proc[1].st = "zombie"
    /\ proc' = [proc EXCEPT ![1].st = "reaped"]
    /\ facade' = [facade EXCEPT !.fpc = "waited", !.err = RunError(proc[1])]
    /\ UNCHANGED <<jobVars, stdin, crashed, callerVars, hist>>

\* if err != nil { log...Warn(...) }; return err
InPlaceReturn ==
    /\ facade.fpc = "waited"
    /\ facade' = [facade EXCEPT !.fpc = "returned"]
    /\ UNCHANGED <<jobVars, envVars, crashed, callerVars, hist>>

NextInPlace ==
    \/ InPlaceStart
    \/ InPlaceExit
    \/ InPlaceWait
    \/ InPlaceReturn

SpecInPlace == InitInPlace /\ [][NextInPlace]_vars

\* ------------------------------------------------------ the magicmime worker
\* init() starts one worker goroutine
Workers_Two == {"magicMimeWorker", "magicMimeWorker2"}
Workers == {"magicMimeWorker"}

\* the file paths callers ask about
Paths == {"a", "b"}

\* a request channel that holds one path
QueryChCap_Buffered == 0 + 1

\* mimeQueryCh = make(chan string,0): the channel holds no path
QueryChCap == 0

MagicError == [kind |-> "magicmime", MimeType |-> <<>>]

\* type mimeResponse struct { mimetype string; err error }
mimeResponse(mimetype, err) == [mimetype |-> mimetype, err |-> err]

\* what magicmime.TypeByFile says of a file: a type the registry holds, a
\* type it does not hold, or an error
TypeByFileResults ==
    {mimeResponse(Str2("text", "plain"), NilError),
     mimeResponse(Str2("application", "x-totally-unknown"), NilError),
     mimeResponse(<<>>, MagicError)}

NoResponse == mimeResponse(<<>>, NilError)

IdleWorker == [wpc |-> "open", path |-> "", for |-> 0, r |-> NoResponse]
IdleGoroutine ==
    [gpc |-> "idle", path |-> "", r |-> NoResponse, handler |-> NilFilter,
     isNil |-> TRUE, err |-> NilError, consulted |-> FALSE]

\* the package after init(): both channels are unbuffered and empty, the
\* worker has not opened libmagic yet; the files are what they are
InitMime ==
    /\ \E fs \in [Paths -> TypeByFileResults] :
          facade = [fpc |-> "mime", fs |-> fs,
                    worker |-> [w \in Workers |-> IdleWorker],
                    sendq |-> <<>>,
                    g |-> [t \in Callers |-> IdleGoroutine],
                    submitted |-> <<>>, served |-> <<>>, answered |-> <<>>]
    /\ proc = [j \in JobIds |-> NoProc]
    /\ stdin = [j \in JobIds |-> FileStdin]
    /\ cmd = [j \in JobIds |-> NoCmd]
    /\ pipe = [j \in JobIds |-> NewPipe]
    /\ result = [j \in JobIds |-> 0]
    /\ termFlag = [j \in JobIds |-> FALSE]
    /\ wg = [j \in JobIds |-> 0]
    /\ crashed = "none"
    /\ IdleCallers
    /\ hist = [j \in JobIds |-> NoHist]

\* log.Fatalln ended the process
MimeFatal == \E w \in Workers : facade.worker[w].wpc = "fatal"
MimeLive == facade.fpc = "mime" /\ ~MimeFatal

MimeFrame == UNCHANGED <<jobVars, envVars, crashed, callerVars, hist>>

\* err := magicmime.Open(...); if err != nil { log.Fatalln(...) }
WorkerOpen(w) ==
    /\ MimeLive
    /\ facade.worker[w].wpc = "open"
    /\ \E ok \in BOOLEAN :
         facade' = [facade EXCEPT !.worker[w].wpc = IF ok THEN "recv" ELSE "fatal"]
    /\ MimeFrame

\* mimeQueryCh <- filePath : the channel has no buffer, so the goroutine
\* waits in the channel's queue of senders until the worker receives (a
\* sender whose path the channel can hold goes on at once)
CallerSend(t) ==
    /\ MimeLive
    /\ facade.g[t].gpc = "idle"
    /\ \E p \in Paths :
         facade' = [facade EXCEPT
                      !.g[t].gpc = IF Len(facade.sendq) < QueryChCap
                                     THEN "receiving" ELSE "sending",
                      !.g[t].path = p,
                      !.sendq = Append(@, t),
                      !.submitted = Append(@, t)]
    /\ MimeFrame

\* a receive that takes the sender that came last
Take_Last(q) == q[Len(q)]

\* the receive of a channel takes the sender that has waited longest
Take(q) == Head(q)

\* for filePath := range mimeQueryCh : the worker takes a sender's path, the
\* sender goes on to its receive; the worker is now in TypeByFile
WorkerRecv(w) ==
    /\ MimeLive
    /\ facade.worker[w].wpc = "recv"
    /\ facade.sendq # <<>>
    /\ LET t == Take(facade.sendq)
           rest == SelectSeq(facade.sendq, LAMBDA x : x # t)
           \* the senders that go on: the one whose path is taken and, with
           \* a buffer, the one whose path moves into it
           released == {t} \cup (IF QueryChCap > 0 /\ Len(rest) >= QueryChCap
                                   THEN {rest[QueryChCap]} ELSE {})
       IN  facade' = [facade EXCEPT
                        !.worker[w] = [wpc |-> "classify", path |-> facade.g[t].path,
                                       for |-> t, r |-> NoResponse],
                        !.sendq = rest,
                        !.g = [u \in Callers |->
                                 IF u \in released /\ @[u].gpc = "sending"
                                   THEN [@[u] EXCEPT !.gpc = "receiving"]
                                   ELSE @[u]],
                        !.served = Append(@, t)]
    /\ MimeFrame

\* mimetype, err := magicmime.TypeByFile(filePath) returns
WorkerClassify(w) ==
    /\ MimeLive
    /\ facade.worker[w].wpc = "classify"
    /\ facade' = [facade EXCEPT !.worker[w].wpc = "respond",
                                !.worker[w].r = facade.fs[facade.worker[w].path]]
    /\ MimeFrame

\* a worker that gives up at the first error
WorkerLoop_StopOnError(r) == IF r.err # NilError THEN "done" ELSE "recv"

\* the body of the range loop has no break and no return
WorkerLoop(r) == "recv"

\* callers that never receive
Receivers_None(g) == {}

\* the goroutines at r := <- mimeResponseCh
Receivers(g) == {t \in Callers : g[t].gpc = "receiving"}

\* mimeResponseCh <- mimeResponse{mimetype, err} meets r := <- mimeResponseCh
\* of a goroutine that is at its receive
WorkerRespond(w, t) ==
    /\ MimeLive
    /\ facade.worker[w].wpc = "respond"
    /\ t \in Receivers(facade.g)
    /\ facade' = [facade EXCEPT
                     !.worker[w] = [IdleWorker EXCEPT !.wpc = WorkerLoop(facade.worker[w].r)],
                     !.g[t].gpc = "received",
                     !.g[t].r = facade.worker[w].r,
                     !.answered = Append(@, t)]
    /\ MimeFrame

\* if r.err != nil { return nil, r.err }
\* return GetExternalHandlerFromMimeType(r.mimetype)
GetFileTypeExternalHandler(t) ==
    /\ MimeLive
    /\ facade.g[t].gpc = "received"
    /\ LET r == facade.g[t].r
           h == GetExternalHandlerFromMimeType(r.mimetype)
       IN  facade' = [facade EXCEPT !.g[t] =
             IF r.err # NilError
               THEN [@ EXCEPT !.gpc = "returned", !.handler = NilFilter,
                              !.isNil = TRUE, !.err = r.err, !.consulted = FALSE]
               ELSE [@ EXCEPT !.gpc = "returned", !.handler = h.handler,
                              !.isNil = h.isNil, !.err = h.err, !.consulted = TRUE]]
    /\ MimeFrame

WorkerStep(w) ==
    \/ WorkerOpen(w)
    \/ WorkerRecv(w)
    \/ WorkerClassify(w)
    \/ \E t \in Callers : WorkerRespond(w, t)

MimeCallerStep(t) ==
    \/ CallerSend(t)
    \/ GetFileTypeExternalHandler(t)

NextMime ==
    \/ \E w \in Workers : WorkerOpen(w)
    \/ \E t \in Callers : CallerSend(t)
    \/ \E w \in Workers : WorkerRecv(w)
    \/ \E w \in Workers : WorkerClassify(w)
    \/ \E w \in Workers, t \in Callers : WorkerRespond(w, t)
    \/ \E t \in Callers : GetFileTypeExternalHandler(t)

SpecMime == InitMime /\ [][NextMime]_vars

\* the scheduler lets every goroutine that can take a step take it
SpecMimeFair ==
    /\ SpecMime
    /\ \A w \in Workers : WF_vars(WorkerStep(w))
    /\ \A t \in Callers : WF_vars(MimeCallerStep(t))

\* ------------------------------------------------------------ CheckHandlers
\* the programs a search path may hold
Programs == {filtersMap[k].Command : k \in DOMAIN filtersMap}

\* CheckHandlers() is called; the search path holds some of the programs
InitCheck ==
    /\ \E path \in SUBSET Programs :
          facade = [fpc |-> "check", path |-> path, registry |-> filtersMap,
                    remaining |-> DOMAIN filtersMap, k |-> ""]
    /\ proc = [j \in JobIds |-> NoProc]
    /\ stdin = [j \in JobIds |-> FileStdin]
    /\ cmd = [j \in JobIds |-> NoCmd]
    /\ pipe = [j \in JobIds |-> NewPipe]
    /\ result = [j \in JobIds |-> 0]
    /\ termFlag = [j \in JobIds |-> FALSE]
    /\ wg = [j \in JobIds |-> 0]
    /\ crashed = "none"
    /\ IdleCallers
    /\ hist = [j \in JobIds |-> NoHist]

\* a check that finds every program
LookPathFails_Never(v, path) == FALSE

\* _, err := exec.LookPath(v.Command); err != nil
LookPathFails(v, path) == v.Command \notin path

\* one turn of for k, v := range filtersMap, the map's entries in any order:
\* hlog.Fatal ends the process when the program is not found
CheckHandler ==
    /\ facade.fpc = "check"
    /\ \E k \in facade.remaining :
         facade' = [facade EXCEPT
                      !.k = k,
                      !.remaining = @ \ {k},
                      !.fpc = IF LookPathFails(facade.registry[k], facade.path)
                                THEN "fatal" ELSE "check"]
    /\ UNCHANGED <<jobVars, envVars, crashed, callerVars, hist>>

\* the range is over: CheckHandlers returns
CheckHandlersReturn ==
    /\ facade.fpc = "check"
    /\ facade.remaining = {}
    /\ facade' = [facade EXCEPT !.fpc = "returned"]
    /\ UNCHANGED <<jobVars, envVars, crashed, callerVars, hist>>

NextCheck ==
    \/ CheckHandler
    \/ CheckHandlersReturn

SpecCheck == InitCheck /\ [][NextCheck]_vars

\* ------------------------------------------- the registry and its slices
\* the six flag lists of a Filter
FlagFields ==
    {"CompressFlags", "DecompressFlags", "CompressStreamFlags",
     "DecompressStreamFlags", "CompressInPlaceFlags", "DecompressInPlaceFlags"}

\* the operations that build an argument vector, and the flag list each uses
ArgOps ==
    {"Compress", "Decompress", "CompressStream", "DecompressStream",
     "CompressFileInPlace", "DecompressFileInPlace"}
OpField(op) ==
    CASE op = "Compress" -> "CompressFlags"
      [] op = "Decompress" -> "DecompressFlags"
      [] op = "CompressStream" -> "CompressStreamFlags"
      [] op = "DecompressStream" -> "DecompressStreamFlags"
      [] op = "CompressFileInPlace" -> "CompressInPlaceFlags"
      [] op = "DecompressFileInPlace" -> "DecompressInPlaceFlags"

\* two handlers are resolved and used
Handlers == {"h1", "h2"}

\* backing arrays: one for each flag list of the registry, one for the
\* argument vector each handler's operation may allocate
ArrIds == ((DOMAIN filtersMap) \X FlagFields) \cup ({"argv"} \X Handlers)

\* a composite literal with a spare element behind its last
SliceCap_Spare(elems) == Len(elems) + 1

\* []string{...}: the capacity of a composite literal is its length
SliceCap(elems) == Len(elems)

\* a slice is its backing array and its length; what it shows
View(heap, sl) == SubSeq(heap[sl.arr], 1, sl.len)

\* append(sl, x): in place when the backing array has room, else into a
\* new array (here: arr) that holds a copy
AppendSlice(heap, sl, x, arr) ==
    IF sl.len < Len(heap[sl.arr])
      THEN [heap |-> [heap EXCEPT ![sl.arr][sl.len + 1] = x],
            sl |-> [arr |-> sl.arr, len |-> sl.len + 1]]
      ELSE [heap |-> [heap EXCEPT ![arr] = Append(View(heap, sl), x)],
            sl |-> [arr |-> arr, len |-> sl.len + 1]]

\* var filtersMap map[string]Filter, as the initialisation leaves it in
\* memory
InitHeap ==
    [a \in ArrIds |->
        IF a[1] = "argv" THEN <<>>
        ELSE LET elems == filtersMap[a[1]][a[2]]
             IN  elems \o [i \in 1..(SliceCap(elems) - Len(elems)) |-> ""]]
InitRegistry ==
    [n \in DOMAIN filtersMap |->
        [k \in FlagFields \cup {"Command", "mimeType"} |->
            IF k \in FlagFields
              THEN [arr |-> <<n, k>>, len |-> Len(filtersMap[n][k])]
              ELSE filtersMap[n][k]]]

NoHandler ==
    [st |-> "none", name |-> "", mimeType |-> <<>>, filter |-> InitRegistry["cat"],
     op |-> "", path |-> "", argv |-> [arr |-> <<"argv", "h1">>, len |-> 0]]

InitReg ==
    /\ facade = [fpc |-> "registry", heap |-> InitHeap, reg |-> InitRegistry,
                 h |-> [x \in Handlers |-> NoHandler]]
    /\ proc = [j \in JobIds |-> NoProc]
    /\ stdin = [j \in JobIds |-> FileStdin]
    /\ cmd = [j \in JobIds |-> NoCmd]
    /\ pipe = [j \in JobIds |-> NewPipe]
    /\ result = [j \in JobIds |-> 0]
    /\ termFlag = [j \in JobIds |-> FALSE]
    /\ wg = [j \in JobIds |-> 0]
    /\ crashed = "none"
    /\ IdleCallers
    /\ hist = [j \in JobIds |-> NoHist]

\* GetExternalHandlerFromMimeType(m) for a key of mimeMap:
\* handler := filtersMap[handlername] copies the struct (its slices still
\* point at the registry's arrays); handler.mimeType = mimeType writes the
\* copy
ResolveHandler(x) ==
    /\ facade.fpc = "registry"
    /\ facade.h[x].st = "none"
    /\ \E m \in MimeKeys :
         LET name == Lookup(mimeMap, FoundKey(m)[1])
         IN  facade' = [facade EXCEPT !.h[x] =
                 [@ EXCEPT !.st = "resolved", !.name = name, !.mimeType = m,
                           !.filter = [facade.reg[name] EXCEPT !["mimeType"] = m]]]
    /\ UNCHANGED <<jobVars, envVars, crashed, callerVars, hist>>

\* the argument vector of an operation of the handler: Compress, Decompress
\* and the in-place methods append the file path to the flag list, the
\* stream methods pass the flag list itself
BuildArgs(x) ==
    /\ facade.fpc = "registry"
    /\ facade.h[x].st = "resolved"
    /\ \E op \in ArgOps, p \in Paths :
         LET sl == facade.h[x].filter[OpField(op)]
             a == AppendSlice(facade.heap, sl, p, <<"argv", x>>)
         IN  IF op \in StreamOps
               THEN facade' = [facade EXCEPT !.h[x] =
                       [@ EXCEPT !.st = "called", !.op = op, !.path = p, !.argv = sl]]
               ELSE facade' = [facade EXCEPT !.heap = a.heap, !.h[x] =
                       [@ EXCEPT !.st = "called", !.op = op, !.path = p, !.argv = a.sl]]
    /\ UNCHANGED <<jobVars, envVars, crashed, callerVars, hist>>

NextReg ==
    \/ \E x \in Handlers : ResolveHandler(x)
    \/ \E x \in Handlers : BuildArgs(x)

SpecRegistry == InitReg /\ [][NextReg]_vars

\* ------------------------------------------------------------- properties
\* C1: after a Close() on a job whose child was still running has returned,
\* every later Result() returns 0, whatever status the OS reports for the
\* child.
C1_ResultZeroAfterForcedClose ==
    \A r \in Returns(1, "Result") : r.forced => r.val = 0

\* C2: a Close() that begins while the child is running returns to its
\* caller, whatever the child is doing: writing to a full pipe, computing
\* or waiting for input. Stated for a Close() that no other call interferes
\* with; and since Close() returns only from cmd.Wait(), the child has
\* ended when it returns, which is what must come about.
C2_ForcedCloseReturns ==
    \A t \in Callers :
        (call[t].op = "Close" /\ call[t].forced)
            ~> \/ pc[t] = "returned"
               \/ proc[call[t].job].st # "run"
               \/ crashed # "none"
               \/ hist[1].closeCalls + hist[1].resultCalls > 1

\* C3: with Result() called by two callers at once (and nothing else
\* called), both calls return (the program does not end under them),
\* neither before the child is reaped, and both with the same integer.
C3_ConcurrentResult ==
    hist[1].closeCalls = 0 =>
        /\ crashed = "none"
        /\ \A r \in Returns(1, "Result") : r.reaped
        /\ \A r, q \in Returns(1, "Result") : r.val = q.val

\* C4: however many Result() and Close() calls are made on a job, the
\* finalize routine (getResult) is executed at most once.
C4_FinalizeAtMostOnce == hist[1].finalizes <= 1

\* C5: on a job never closed and read to end-of-stream, the first Result()
\* performs the wait itself: when it returns, the child is reaped, and
\* reaped by that call.
C5_ResultReaps ==
    \A r \in Returns(1, "Result") :
        (r.first /\ r.eof /\ r.closes = 0) => (r.reaped /\ hist[1].reapedBy = r.no)

C5_Witness ==
    \E r \in Returns(1, "Result") :
        r.first /\ r.eof /\ r.closes = 0 /\ r.reaped /\ hist[1].reapedBy = r.no

ChainReturned(j) ==
    /\ \E r \in Returns(j, "Result") : r.val = 0 /\ r.reaped
    /\ hist[1].closeCalls = 0 /\ hist[2].closeCalls = 0

C7_ChainResults == <>(ChainReturned(1) /\ ChainReturned(2))

C7_Witness == ChainReturned(1) /\ ChainReturned(2) /\ hist[2].sawEOF


\* p is the primary type of s: the part of s before its first "/"
IsPrimaryType(p, s) ==
    /\ Len(p) <= Len(s)
    /\ p = SubSeq(s, 1, Len(p))
    /\ ~HasArg(p, Slash)
    /\ Len(p) = Len(s) \/ s[Len(p) + 1] = Slash
Resolvable(s) == s \in MimeKeys \/ \E k \in MimeKeys : IsPrimaryType(k, s)

\* C8: for every byte sequence B and every registered content type, the
\* bytes read to end-of-stream from CompressStream(B), stored in a file and
\* read back through Decompress(file) of the same handler, equal B, and
\* Result() is 0 on both jobs; for the pass-through filter the bytes of the
\* file equal B too.
C8_RoundTrip ==
    (facade.fpc = "done" /\ facade.mimeType \in MimeKeys) =>
        /\ ~facade.resolved.isNil
        /\ facade.data.out = facade.data.src
        /\ facade.legs = [compress |-> 0, decompress |-> 0]
        /\ facade.resolved.handler.Command = "cat" => facade.data.file = facade.data.src

C8_Witness ==
    /\ facade.fpc = "done"
    /\ facade.mimeType = Str2("application", "x-bzip2")
    /\ Len(facade.data.src) = MaxLen
    /\ facade.data.file # facade.data.src
    /\ facade.data.out = facade.data.src
    /\ facade.legs = [compress |-> 0, decompress |-> 0]

\* C9: for every content type t that GetExternalHandlerFromMimeType
\* resolves (a key of the registry, or a string whose primary type is a
\* key), the call returns no error and a handler whose MimeType() is t.
C9_MimeTypeRoundTrip ==
    (facade.fpc # "resolve" /\ Resolvable(facade.mimeType)) =>
        /\ facade.resolved.err = NilError
        /\ ~facade.resolved.isNil
        /\ MimeType(facade.resolved.handler) = facade.mimeType

C9_Witness ==
    /\ facade.fpc # "resolve"
    /\ facade.mimeType \notin MimeKeys
    /\ Resolvable(facade.mimeType)
    /\ ~facade.resolved.isNil
    /\ MimeType(facade.resolved.handler) = facade.mimeType

\* C10: for every content type that is neither a key of the registry nor
\* has its primary type as a key, GetExternalHandlerFromMimeType returns no
\* handler and an UnknownFileType error whose MimeType is the input.
C10_UnknownFileType ==
    (facade.fpc # "resolve" /\ ~Resolvable(facade.mimeType)) =>
        /\ facade.resolved.isNil
        /\ facade.resolved.err = UnknownFileType(facade.mimeType)

C10_Witness ==
    /\ facade.fpc = "done"
    /\ facade.mimeType = Str2("application", "x-totally-unknown")
    /\ facade.resolved.isNil
    /\ facade.resolved.err = UnknownFileType(facade.mimeType)

\* C11: the lookup has two levels. A content type that is a key of the
\* registry gets the filter registered under that very key, also when its
\* primary type is a key too; only a content type that is no key gets the
\* filter registered under its primary type.
C11_TwoLevelLookup ==
    (facade.fpc # "resolve" /\ ~facade.resolved.isNil) =>
        IF facade.mimeType \in MimeKeys
          THEN /\ facade.key = <<facade.mimeType>>
               /\ facade.resolved.handler.Command = Lookup(mimeMap, facade.mimeType)
          ELSE \E k \in MimeKeys :
                  /\ IsPrimaryType(k, facade.mimeType)
                  /\ facade.key = <<k>>
                  /\ facade.resolved.handler.Command = Lookup(mimeMap, k)

C11_Witness ==
    /\ facade.fpc # "resolve"
    /\ facade.mimeType = Str2("text", "plain")
    /\ Str1("text") \in MimeKeys
    /\ facade.key = <<Str2("text", "plain")>>
    /\ facade.resolved.handler.Command = "cat"

\* C12: when the pipe cannot be created or the process cannot be started,
\* Compress, Decompress, CompressStream and DecompressStream return the
\* error and no job; and a job that is returned has a started process and
\* a completion latch that is not released.
C12_SpawnFailure ==
    facade.fpc = "spawned" =>
        /\ facade.err # "nil" => /\ facade.job = 0
                                 /\ proc[1].st = "none"
                                 /\ wg[1] = 0
        /\ facade.job # 0 => /\ facade.err = "nil"
                             /\ proc[facade.job].st # "none"
                             /\ cmd[facade.job].ProcessState = "nil"
                             /\ wg[facade.job] = newCompressionJob_wg

C12_Witness ==
    /\ facade.fpc = "spawned"
    /\ facade.op = "DecompressStream"
    /\ facade.err = "start"
    /\ facade.job = 0

\* C13: CompressFileInPlace and DecompressFileInPlace return only when the
\* process, if it was started, has ended and been waited on; the error they
\* return is nil exactly when the process was started and exited with
\* status 0; no job and no output stream is made.
C13_InPlace ==
    /\ facade.fpc = "returned" =>
          /\ facade.started => proc[1].st = "reaped"
          /\ facade.err = "nil" <=>
                (facade.started /\ ~proc[1].bySignal /\ proc[1].status = 0)
    /\ facade.job = 0
    /\ \A j \in JobIds : cmd[j] = NoCmd /\ wg[j] = 0 /\ pipe[j] = NewPipe

C13_Witness ==
    /\ facade.fpc = "returned"
    /\ facade.op = "DecompressFileInPlace"
    /\ facade.started
    /\ proc[1].st = "reaped"
    /\ proc[1].status # 0
    /\ facade.err = "exit"

IsPrefix(a, b) == Len(a) <= Len(b) /\ \A i \in 1..Len(a) : a[i] = b[i]

C15_OneNativeCall ==
    facade.fpc = "mime" =>
        Cardinality({w \in Workers : facade.worker[w].wpc = "classify"}) <= 1

C15_Witness ==
    /\ facade.fpc = "mime"
    /\ \E w \in Workers : facade.worker[w].wpc = "classify"
    /\ \A t \in Callers : facade.g[t].gpc \in {"sending", "receiving"}
    /\ facade.sendq # <<>>

\* a file could not be classified
MimeFailed(t) == facade.fs[facade.g[t].path].err # NilError

\* C16: a caller whose file could not be classified gets that error, no
\* handler, and the registry is not consulted; the worker goes on: a request
\* submitted after a failure was reported is answered.
C16_ClassificationError ==
    /\ [](facade.fpc = "mime" =>
            /\ \A t \in Callers :
                  (facade.g[t].gpc = "returned" /\ MimeFailed(t)) =>
                      /\ facade.g[t].err = facade.fs[facade.g[t].path].err
                      /\ facade.g[t].isNil
                      /\ ~facade.g[t].consulted
            /\ \A w \in Workers : facade.worker[w].wpc # "done")
    /\ \A t \in Callers :
          (/\ facade.fpc = "mime"
           /\ facade.g[t].gpc = "sending"
           /\ \E u \in Callers : facade.g[u].gpc \in {"received", "returned"}
                                   /\ facade.g[u].r.err # NilError)
          ~> (facade.g[t].gpc = "returned")

C16_Witness ==
    /\ facade.fpc = "mime"
    /\ facade.submitted = <<1, 2>>
    /\ facade.g[1].gpc = "returned"
    /\ facade.g[1].err = MagicError
    /\ facade.g[2].gpc = "returned"
    /\ facade.g[2].err = NilError
    /\ ~facade.g[2].isNil

\* C17: CheckHandlers ends the process fatally exactly when the program of
\* some registered filter is not on the search path; otherwise it returns
\* and the registry is as it was.
C17_CheckHandlers ==
    LET missing == \E k \in DOMAIN filtersMap : filtersMap[k].Command \notin facade.path
    IN  /\ facade.fpc = "fatal" => missing
        /\ facade.fpc = "returned" => (~missing /\ facade.registry = filtersMap)
        /\ (facade.fpc = "check" /\ facade.remaining = {}) => ~missing

C17_Witness ==
    /\ facade.fpc = "fatal"
    /\ facade.path = Programs \ {"xz"}
    /\ facade.k = "xz"
    /\ facade.remaining = {}

\* C18: a Close() that begins while the child is running sends the
\* termination signal and sets the forced flag before anything else, then
\* closes the pipe, then waits: from its first step on the flag is set and
\* the child has been signalled, while it waits the pipe is closed, and when
\* it returns the child has been reaped.
C18_CloseSequence ==
    \A t \in Callers :
        (call[t].op = "Close" /\ call[t].forced /\ pc[t] # "idle") =>
            /\ termFlag[call[t].job]
            /\ proc[call[t].job].st # "run"
            /\ pc[t] \notin {"close_pipe"} => pipe[call[t].job].rdClosed
            /\ pc[t] = "returned" => proc[call[t].job].st = "reaped"

\* C19: a Close() that begins after the child has ended on its own (no other
\* Close() was made) leaves the forced flag unset, whether Result() was
\* called before or not, and when it returns the result is the status the
\* child exited with.
C19_CloseAfterExit ==
    \A t \in Callers :
        (/\ call[t].op = "Close"
         /\ ~call[t].forced
         /\ pc[t] # "idle"
         /\ hist[call[t].job].closeCalls = 1) =>
            /\ ~termFlag[call[t].job]
            /\ pc[t] = "returned" =>
                    result[call[t].job] = ExitStatus(proc[call[t].job])

\* C20: a Result() call that has begun returns, with the output drained or
\* not. Stated for a Result() that is the only call made on the job, with a
\* child that ends when it has read all its input and written all its
\* output, and an input that comes to its end.
C20_ResultReturns ==
    \A t \in Callers :
        (call[t].op = "Result" /\ pc[t] \notin {"idle", "returned"})
            ~> \/ pc[t] = "returned"
               \/ hist[1].closeCalls + hist[1].resultCalls > 1

\* C21: once a Result() has returned v the recorded result is v and stays v,
\* and every Result() that has returned has returned v; with Close() calls
\* begun after it returned the only other calls made, the program still
\* runs, so that a later Result() can return v too.
C21_ResultFinal ==
    \A r \in Returns(1, "Result") :
        /\ result[1] = r.val
        /\ \A q \in Returns(1, "Result") : q.val = r.val
        /\ (hist[1].resultCalls = 1 /\ r.closes = 0) => crashed = "none"

\* C22: the latch starts at 1 and is released once: with a Close() begun
\* after the first call on the job (a Result() or a Close()) has returned,
\* the counter stays at or above zero and the program does not end.
C22_LatchReleasedOnce ==
    (/\ pc[1] = "returned"
     /\ call[2].op = "Close"
     /\ call[1].closes < hist[1].closeCalls) =>
        /\ wg[1] >= 0
        /\ crashed = "none"

\* C23: when a Close() returns, the child of the job has ended and has been
\* waited on: it is neither running nor a zombie, then and afterwards.
C23_CloseReaps ==
    \A r \in Returns(1, "Close") : r.reaped /\ proc[1].st = "reaped"

C23_Witness ==
    /\ crashed = "none"
    /\ \E r \in Returns(1, "Close") : r.forced /\ r.reaped /\ hist[1].reapedBy = r.no

\* C24: in a Close() that is the only call on the job, the pipe is closed
\* only once the wait on the process has been issued; and the program does
\* not end fatally over a child that the broken pipe killed.
C24_CloseAfterWait ==
    \A t \in Callers :
        (/\ call[t].op = "Close"
         /\ pc[t] # "idle"
         /\ hist[1].closeCalls + hist[1].resultCalls = 1) =>
            /\ pipe[1].rdClosed =>
                  pc[t] \in {"wait_proc", "wait_copy", "record", "wg_done", "returned"}
            /\ proc[1].bySignal => crashed = "none"

\* C25: a Close() whose signal could not be delivered (the flag is set and
\* the child was not running when it began; no other Close() was made) goes
\* on: past this.pipe.Close() the pipe is closed, the latch is released and
\* not driven below zero, the program does not end, and Close() returns
\* nil with the child reaped.
C25_SignalFailure ==
    \A t \in Callers :
        (/\ call[t].op = "Close"
         /\ pc[t] # "idle"
         /\ hist[1].closeCalls = 1
         /\ termFlag[1]
         /\ ~call[t].forced) =>
            /\ pc[t] # "close_pipe" => pipe[1].rdClosed
            /\ wg[1] >= 0
            /\ crashed = "none"
            /\ pc[t] = "returned" =>
                  (call[t].val = 0 /\ call[t].reaped /\ wg[1] = 0)

\* C26: a cmd.Wait() that failed with an error that is no exit status ends
\* the program fatally, with the forced flag set or not: no getResult goes
\* on to wg.Done() after such an error.
C26_WaitFailureFatal ==
    \A t \in Callers :
        (pc[t] = "wg_done" /\ waitErr[t] = "other") => crashed = "fatal"

\* C27: a Read() returns the byte count and the status (data, end-of-stream
\* or error) that the pipe's Read returned, takes that many bytes from the
\* pipe, and leaves the result, the forced flag and the latch as they were.
C27_ReadForwards ==
    [][facade'.reads # facade.reads =>
          /\ facade'.ret = facade'.pipeRet
          /\ facade'.pipeRet \in PipeRead(pipe[1])
          /\ pipe'[1].buf = pipe[1].buf - facade'.ret.n
          /\ result' = result
          /\ termFlag' = termFlag
          /\ wg' = wg]_vars

C27_Witness ==
    /\ facade.fpc = "read"
    /\ facade.ret = [kind |-> "err", n |-> 0]
    /\ pipe[1].rdClosed
    /\ pc[1] = "returned"

\* C28: the response a caller of GetFileTypeExternalHandler receives is the
\* one computed for the file path this caller submitted, and what it
\* returns comes from that response.
C28_OwnResponse ==
    facade.fpc = "mime" =>
        \A t \in Callers :
            facade.g[t].gpc \in {"received", "returned"} =>
                /\ facade.g[t].r = facade.fs[facade.g[t].path]
                /\ facade.g[t].gpc = "returned" =>
                      facade.g[t].err =
                          IF facade.g[t].r.err # NilError THEN facade.g[t].r.err
                          ELSE GetExternalHandlerFromMimeType(facade.g[t].r.mimetype).err

C28_Witness ==
    /\ facade.fpc = "mime"
    /\ facade.g[1].path # facade.g[2].path
    /\ facade.fs["a"] # facade.fs["b"]
    /\ facade.submitted = <<2, 1>>
    /\ facade.g[2].gpc = "returned"
    /\ facade.g[1].gpc = "received"
    /\ facade.g[1].r = facade.fs[facade.g[1].path]

\* C29 as stated: every call of GetFileTypeExternalHandler that has
\* submitted its path returns.
C29_EveryCallReturns ==
    \A t \in Callers :
        (facade.fpc = "mime" /\ facade.g[t].gpc = "sending")
            ~> (facade.g[t].gpc = "returned")

\* C29, amended: every call that has submitted its path returns, and the
\* worker comes back to its receive after every request, unless libmagic
\* could not be opened, which ends the process.
C29_ReturnsUnlessFatal ==
    /\ \A t \in Callers :
          (facade.fpc = "mime" /\ facade.g[t].gpc \in {"sending", "receiving", "received"})
              ~> (facade.g[t].gpc = "returned" \/ MimeFatal)
    /\ \A w \in Workers :
          (facade.fpc = "mime" /\ facade.worker[w].wpc \in {"classify", "respond"})
              ~> (facade.worker[w].wpc = "recv")

C29_Witness ==
    /\ facade.fpc = "mime"
    /\ \A t \in Callers : facade.g[t].gpc = "returned"
    /\ \A w \in Workers : facade.worker[w].wpc = "recv"
    /\ Len(facade.answered) = Cardinality(Callers)

\* C30: whatever handlers are resolved and whatever operations build their
\* argument vectors, the program name, the six flag lists and the (empty)
\* content type of every filter of the registry are as initialised; every
\* handler keeps its own content type and the flag lists of its filter, and
\* every argument vector built stays the flag list with its own file path.
C30_RegistryUnchanged ==
    facade.fpc = "registry" =>
        /\ \A n \in DOMAIN filtersMap :
              /\ facade.reg[n]["Command"] = filtersMap[n].Command
              /\ facade.reg[n]["mimeType"] = <<>>
              /\ \A f \in FlagFields :
                    View(facade.heap, facade.reg[n][f]) = filtersMap[n][f]
        /\ \A x \in Handlers :
              facade.h[x].st # "none" =>
                  /\ facade.h[x].filter["mimeType"] = facade.h[x].mimeType
                  /\ facade.h[x].filter["Command"] = filtersMap[facade.h[x].name].Command
                  /\ \A f \in FlagFields :
                        View(facade.heap, facade.h[x].filter[f])
                            = filtersMap[facade.h[x].name][f]
        /\ \A x \in Handlers :
              facade.h[x].st = "called" =>
                  View(facade.heap, facade.h[x].argv) =
                      IF facade.h[x].op \in StreamOps
                        THEN filtersMap[facade.h[x].name][OpField(facade.h[x].op)]
                        ELSE Append(filtersMap[facade.h[x].name][OpField(facade.h[x].op)],
                                    facade.h[x].path)

C30_Witness ==
    /\ facade.fpc = "registry"
    /\ \A x \in Handlers :
          /\ facade.h[x].st = "called"
          /\ facade.h[x].name = "gzip"
          /\ facade.h[x].op = "Compress"
    /\ facade.h["h1"].path # facade.h["h2"].path
    /\ facade.h["h1"].mimeType # facade.h["h2"].mimeType
    /\ View(facade.heap, facade.h["h1"].argv) = <<"-c", facade.h["h1"].path>>

\* C31: in every reachable state of a job, whatever Read(), Close() and
\* Result() calls were made, a set forced flag means a recorded result of 0.
C31_ForcedMeansZero ==
    \A j \in JobIds : termFlag[j] => result[j] = 0
====
